---- MODULE Spec2Model ----
(***************************************************************************)
(* A model of sssh.py: the node tree (AbstractNode / Node / LeafNode /     *)
(* NodeSet), the Filesystem lookups and move, and the StupidlySimpleShell  *)
(* path resolution and operations.                                         *)
(*                                                                         *)
(* Python objects are heap cells identified by integers.  A path is the    *)
(* tuple pathlib.Path(...).parts: <<"/", "a", "b">> for "/a/b",            *)
(* <<"a", "b">> for "a/b" and << >> for ".".                               *)
(***************************************************************************)
EXTENDS Integers, Sequences, FiniteSets, TLC

\* ---------------------------------------------------------------- bounds
\* number of nodes that can be constructed besides the root
MaxNodes == 3
\* number of components of an absolute path given to a shell operation
MaxDepth == 2
\* number of tokens of a path given to resolve_path
MaxToks == 4
\* number of calls of shell operations in one run
MaxOps == 4
\* number of calls that precede a resolve_path call
MaxSetup == 3
\* number of calls in a run that uses managed_cd
MaxScopeOps == 5
\* number of calls in a run that writes data and registers watchers
MaxDataOps == 5
\* number of callbacks given to one unwatch_file call
MaxUnwatch == 2

Names == {"a", "b"}

\* the values stored as data of a leaf, besides None
Values == {"v", "w"}
\* the callables registered as watchers
Callbacks == {"f", "g"}
\* the metadata keys, and the value stored under a key
Keys == {"k"}
MetaValues == {"m"}

Root == 0
None == -1
Ids == 0..MaxNodes

VARIABLES
    kind,      \* kind[n]: "Node", "LeafNode", or "free" (not constructed)
    name,      \* AbstractNode._name
    parent,    \* AbstractNode._parent (None when there is none)
    members,   \* NodeSet._members of Node n's children
    cwd,       \* StupidlySimpleShell._cwd
    pc,        \* position inside Filesystem.move_node, with its local variables
               \* and the name the source had when the call began
    last,      \* the last finished call: operation, exception, raise site, the
               \* node its path resolved to or it created, and the node returned
    rp,        \* the last resolve_path call: its argument, the parts of the
               \* argument, the working directory path at the call, and the
               \* parts it returned
    ops,       \* the number of finished calls
    budget,    \* the number of calls the run is made of
    data,      \* LeafNode._data ("None" for None and for a directory)
    callbacks, \* LeafNode._callbacks
    meta,      \* AbstractNode._meta: the value of each key, "absent" if not set
    scope      \* the ChangeDirContextManager in use: whether its scope has
               \* been entered, the path it recorded (_pwd), and the node that
               \* was the current directory when it was recorded

vars == <<kind, name, parent, members, cwd, pc, last, rp, ops, budget, data, callbacks, meta, scope>>

\* ------------------------------------------------------------- pathlib
Range(s) == {s[i] : i \in 1..Len(s)}

SeqsUpTo(S, n) == UNION {[1..k -> S] : k \in 0..n}

IsNotDot(t) == t # "."

\* pathlib.Path(str).parts: a leading "/" is the root part, "." tokens vanish
PathOf(r) == (IF r.abs THEN <<"/">> ELSE << >>) \o SelectSeq(r.toks, IsNotDot)

IsAbs(p) == Len(p) > 0 /\ p[1] = "/"

\* PurePath.__truediv__: an absolute right operand replaces the left one
Join(p, q) == IF IsAbs(q) THEN q ELSE p \o q

\* PurePath.name: the final component, "" for the root and for "."
PName(p) == IF Len(p) = 0 \/ p = <<"/">> THEN "" ELSE p[Len(p)]

\* PurePath.parent: the path without its final component
PParent(p) == IF Len(p) = 0 \/ p = <<"/">> THEN p ELSE SubSeq(p, 1, Len(p) - 1)

\* del parts[i] for a 0-based index i, negative indices counting from the end
DelAt(parts, i) ==
    LET j == IF i < 0 THEN Len(parts) + i + 1 ELSE i + 1
    IN  SubSeq(parts, 1, j - 1) \o SubSeq(parts, j + 1, Len(parts))

\* ------------------------------------------------------------ outcomes
Ok(n) == [exc |-> "none", node |-> n]
Raise(e) == [exc |-> e, node |-> None]

\* the marker for a get_path call that never returns
Diverges == <<"<diverges>">>

Idle == [at |-> "idle", source |-> None, target |-> None, was |-> ""]

\* no callback was invoked
NoCalls == [c \in Callbacks |-> 0]

\* what is kept of a finished call: the operation, the exception and where
\* it was raised, the node the path resolved to, the node returned, the
\* directory a mv put its source into, the number of times each callback was
\* invoked and the path the callbacks were given
Outcome(o, e, s, n, r) ==
    [op |-> o, exc |-> e, site |-> s, node |-> n, ret |-> r, dir |-> None,
     calls |-> NoCalls, cbpath |-> << >>]

NoCall == Outcome("init", "none", "", None, None)
NoArg == [abs |-> FALSE, toks |-> << >>]
NoResolve == [arg |-> NoArg, input |-> << >>, pwd |-> << >>, output |-> << >>, done |-> FALSE]
NoData == "None"
NoMeta == [k \in Keys |-> "absent"]
NoScope == [entered |-> FALSE, pwd |-> << >>, node |-> None]

\* ---------------------------------------------------------------- Node
\* NodeSet.get through Node.get_child; a LeafNode has no get_child method.
\* Iteration order of the underlying set is unspecified: with several
\* members of that name any of them can be the first one met.
GetChild(n, nm) ==
    IF kind[n] # "Node" THEN {Raise("AttributeError")}
    ELSE LET ms == {m \in members[n] : name[m] = nm}
         IN  IF ms = {} THEN {Raise("NodeDoesNotExistError")}
             ELSE {Ok(m) : m \in ms}

RECURSIVE Walk(_, _)
Walk(n, parts) ==
    IF parts = << >> THEN {Ok(n)}
    ELSE UNION { IF o.exc = "none" THEN Walk(o.node, Tail(parts)) ELSE {o}
                 : o \in GetChild(n, Head(parts)) }

\* Filesystem.get_node
GetNode(path) ==
    IF Len(path) = 0 THEN {Raise("ValueError")}
    ELSE IF Head(path) = name[Root] THEN Walk(Root, Tail(path))
    ELSE Walk(Root, path)

RECURSIVE GetPathUp(_, _, _)
GetPathUp(n, path, seen) ==
    IF parent[n] = None THEN path
    ELSE IF parent[n] \in seen THEN Diverges
    ELSE GetPathUp(parent[n], Join(<<name[parent[n]]>>, path), seen \cup {parent[n]})

\* AbstractNode.get_path
GetPath(n) == GetPathUp(n, <<name[n]>>, {n})

\* NodeSet.remove on the children of owner, given the name and member maps
NodeSetRemove(nm, mem, owner, nam) ==
    LET cands == {m \in mem[owner] : nm[m] = nam}
    IN  IF cands = {} THEN {[exc |-> "NodeDoesNotExistError", members |-> mem]}
        ELSE {[exc |-> "none", members |-> [mem EXCEPT ![owner] = @ \ {m}]] : m \in cands}

\* NodeSet.add on the children of owner
NodeSetAdd(nm, mem, owner, n) ==
    IF \E m \in mem[owner] : nm[m] = nm[n]
    THEN [exc |-> "DuplicateNodeNameError", members |-> mem]
    ELSE [exc |-> "none", members |-> [mem EXCEPT ![owner] = @ \cup {n}]]

\* AbstractNode.set_parent: the set of possible results
SetParent(nm, par, mem, n, p) ==
    LET removed == IF par[n] # None THEN NodeSetRemove(nm, mem, par[n], nm[n])
                   ELSE {[exc |-> "none", members |-> mem]}
    IN  { IF r.exc # "none" THEN [exc |-> r.exc, parent |-> par, members |-> r.members]
          ELSE LET a == IF p # None THEN NodeSetAdd(nm, r.members, p, n)
                        ELSE [exc |-> "none", members |-> r.members]
               IN  IF a.exc # "none"
                   THEN [exc |-> a.exc, parent |-> par, members |-> a.members]
                   ELSE [exc |-> "none", parent |-> [par EXCEPT ![n] = p], members |-> a.members]
          : r \in removed }

\* ------------------------------------------------------- resolve_path
RECURSIVE Collapse(_, _)
\* the loop "for idx, part in enumerate(parts)" deleting from parts as it goes
Collapse(parts, idx) ==
    IF idx >= Len(parts) THEN parts
    ELSE LET part == parts[idx + 1]
         IN  IF part = "." THEN Collapse(DelAt(parts, idx), idx + 1)
             ELSE IF part = ".."
             THEN LET p1 == DelAt(parts, idx)
                  IN  IF Len(p1) > 0 THEN Collapse(DelAt(p1, idx - 1), idx + 1)
                      ELSE Collapse(p1, idx + 1)
             ELSE Collapse(parts, idx + 1)

\* StupidlySimpleShell.pwd
Pwd == GetPath(cwd)

\* resolve_path without the test for an absolute argument, the working
\* directory being prepended to every argument
ResolvePathPrepend(path) ==
    IF Pwd = Diverges THEN Diverges
    ELSE LET full == Pwd \o (IF IsAbs(path) THEN Tail(path) ELSE path)
             root == Head(full)
             parts == Tail(full)
         IN  IF "." \in Range(parts) \/ ".." \in Range(parts)
             THEN <<root>> \o Collapse(parts, 0)
             ELSE full

\* StupidlySimpleShell.resolve_path
ResolvePath(path) ==
    LET root0 == IF Len(path) = 0 THEN "." ELSE Head(path)
    IN  IF root0 # name[Root] /\ Pwd = Diverges THEN Diverges
        ELSE LET full == IF root0 # name[Root] THEN Join(Pwd, path) ELSE path
                 root == Head(full)
                 parts == Tail(full)
             IN  IF "." \in Range(parts) \/ ".." \in Range(parts)
                 THEN <<root>> \o Collapse(parts, 0)
                 ELSE full

\* ------------------------------------------------------------- inputs
ShellInputs ==
    {[abs |-> TRUE, toks |-> s] : s \in SeqsUpTo(Names, MaxDepth)}
    \cup {[abs |-> FALSE, toks |-> s] : s \in SeqsUpTo(Names \cup {".."}, 1)}

\* the absolute paths given to the operations of a run that writes data
DataInputs == {[abs |-> TRUE, toks |-> s] : s \in SeqsUpTo(Names, MaxDepth)}

ResolveInputs ==
    {[abs |-> b, toks |-> s] : b \in BOOLEAN, s \in SeqsUpTo(Names \cup {".", ".."}, MaxToks)}

\* --------------------------------------------------------------- Init
Fresh ==
    /\ kind = [n \in Ids |-> IF n = Root THEN "Node" ELSE "free"]
    /\ name = [n \in Ids |-> IF n = Root THEN "/" ELSE ""]
    /\ parent = [n \in Ids |-> None]
    /\ members = [n \in Ids |-> {}]
    /\ cwd = Root
    /\ pc = Idle
    /\ last = NoCall
    /\ rp = NoResolve
    /\ ops = 0
    /\ data = [n \in Ids |-> NoData]
    /\ callbacks = [n \in Ids |-> {}]
    /\ meta = [n \in Ids |-> NoMeta]
    /\ scope = NoScope

Init == Fresh /\ budget = MaxOps

\* ------------------------------------------------------------ helpers
Heap == [kind |-> kind, name |-> name, parent |-> parent, members |-> members]

RECURSIVE Reach(_, _)
Reach(h, S) ==
    LET T == S \cup ({h.parent[n] : n \in S} \ {None}) \cup UNION {h.members[n] : n \in S}
    IN  IF T = S THEN S ELSE Reach(h, T)

\* the node a managed_cd scope was entered from; the model keeps its cell so
\* that no later object is taken for it
Entered == {scope.node} \ {None}

\* the objects the program still holds a reference to: those connected to
\* the root or to the current directory by parent or child references
Live == Reach(Heap, {Root, cwd} \cup Entered)

\* an object nothing refers to any more is reclaimed; its cell can hold the
\* next object that is constructed
Free == Ids \ Live

\* the heap h without the objects outside the set live
Collect(h, live) ==
    [kind |-> [n \in Ids |-> IF n \in live THEN h.kind[n] ELSE "free"],
     name |-> [n \in Ids |-> IF n \in live THEN h.name[n] ELSE ""],
     parent |-> [n \in Ids |-> IF n \in live THEN h.parent[n] ELSE None],
     members |-> [n \in Ids |-> IF n \in live THEN h.members[n] ELSE {}]]

\* the heap without the reclaimed objects
Clean == Collect(Heap, Live)

\* the objects a call hands back to its caller stay alive past the call
Kept(n) == {n} \ {None}

\* the heap h and the current directory c become the state; what neither the
\* shell nor the caller refers to is reclaimed
Commit(h, c, keep) ==
    LET g == Collect(h, Reach(h, {Root, c} \cup keep \cup Entered))
    IN  /\ kind' = g.kind
        /\ name' = g.name
        /\ parent' = g.parent
        /\ members' = g.members
        /\ cwd' = c
        /\ data' = [n \in Ids |-> IF g.kind[n] = "free" THEN NoData ELSE data[n]]
        /\ callbacks' = [n \in Ids |-> IF g.kind[n] = "free" THEN {} ELSE callbacks[n]]
        /\ meta' = [n \in Ids |-> IF g.kind[n] = "free" THEN NoMeta ELSE meta[n]]

Min(S) == CHOOSE x \in S : \A y \in S : x <= y

\* no call is in progress and no earlier call is still running
Ready == pc = Idle /\ last.exc # "Hang" /\ ops < budget

Return(o, n, r) ==
    /\ last' = Outcome(o, "none", "return", n, r)
    /\ ops' = ops + 1
    /\ UNCHANGED budget

Fail(o, e, s, n) ==
    /\ last' = Outcome(o, e, s, n, None)
    /\ ops' = ops + 1
    /\ UNCHANGED budget

\* an exception raised before anything was changed
Raises(o, e, s, n) ==
    /\ Fail(o, e, s, n)
    /\ UNCHANGED <<kind, name, parent, members, cwd, pc, rp, data, callbacks, meta, scope>>

\* Node(name=nm, parent=p) or LeafNode(name=nm, parent=p): the constructor
\* sets the name and calls set_parent(p); on DuplicateNodeNameError the new
\* object is dropped.  The caller turns the error into InvalidPathError.
Construct(o, k, nm, p, dupsite) ==
    IF \E m \in members[p] : name[m] = nm
    THEN Raises(o, "InvalidPathError", dupsite, None)
    ELSE /\ Free # {}
         /\ LET n == Min(Free)
            IN  Commit([kind |-> [Clean.kind EXCEPT ![n] = k],
                        name |-> [Clean.name EXCEPT ![n] = nm],
                        parent |-> [Clean.parent EXCEPT ![n] = p],
                        members |-> [Clean.members EXCEPT ![p] = @ \cup {n}]], cwd, {})
         /\ Return(o, Min(Free), None)
         /\ UNCHANGED <<pc, rp, scope>>

\* the loop of mkdir(parents=True) from node n over the remaining parts, on
\* the heap h; "capped" marks a run that needs more nodes than the bound
RECURSIVE MkdirLoop(_, _, _)
MkdirLoop(h, n, parts) ==
    IF parts = << >> THEN {[exc |-> "none", heap |-> h]}
    ELSE LET ms == {m \in h.members[n] : h.name[m] = Head(parts)}
             fr == {f \in Ids : h.kind[f] = "free"}
         IN  IF ms # {}
             THEN UNION { IF h.kind[m] # "Node"
                          THEN {[exc |-> "InvalidPathError", heap |-> h]}
                          ELSE MkdirLoop(h, m, Tail(parts)) : m \in ms }
             ELSE IF fr = {} THEN {[exc |-> "capped", heap |-> h]}
             ELSE LET f == Min(fr)
                      h2 == [kind |-> [h.kind EXCEPT ![f] = "Node"],
                             name |-> [h.name EXCEPT ![f] = Head(parts)],
                             parent |-> [h.parent EXCEPT ![f] = n],
                             members |-> [h.members EXCEPT ![n] = @ \cup {f}]]
                  IN  MkdirLoop(h2, f, Tail(parts))

\* ------------------------------------------------------------ actions
\* StupidlySimpleShell.resolve_path called directly
ResolvePathCall(r) ==
    /\ Ready
    /\ LET out == ResolvePath(PathOf(r))
       IN  /\ rp' = [arg |-> r, input |-> PathOf(r), pwd |-> Pwd, output |-> out, done |-> TRUE]
           /\ IF out = Diverges THEN Fail("resolve_path", "Hang", "get_path", None)
              ELSE Return("resolve_path", None, None)
           /\ UNCHANGED <<kind, name, parent, members, cwd, pc, data, callbacks, meta, scope>>

\* StupidlySimpleShell.cd
Cd(r) ==
    /\ Ready
    /\ LET path == ResolvePath(PathOf(r))
       IN  IF path = Diverges THEN Raises("cd", "Hang", "get_path", None)
           ELSE \E o \in GetNode(path) :
                IF o.exc = "NodeDoesNotExistError"
                THEN Raises("cd", "InvalidPathError", "cd:missing", None)
                ELSE IF o.exc # "none" THEN Raises("cd", o.exc, "get_node", None)
                ELSE IF kind[o.node] # "Node"
                THEN Raises("cd", "InvalidPathError", "cd:not_a_directory", o.node)
                ELSE /\ Commit(Clean, o.node, {})
                     /\ Return("cd", o.node, None)
                     /\ UNCHANGED <<pc, rp, scope>>

\* StupidlySimpleShell.mkdir
Mkdir(r, parents) ==
    /\ Ready
    /\ LET path == ResolvePath(PathOf(r))
           o == IF parents THEN "mkdir_p" ELSE "mkdir"
       IN  IF path = Diverges THEN Raises(o, "Hang", "get_path", None)
           ELSE IF PName(path) = "" THEN Raises(o, "InvalidPathError", "mkdir:name", None)
           ELSE IF ~parents
           THEN \E g \in GetNode(PParent(path)) :
                IF g.exc = "NodeDoesNotExistError"
                THEN Raises(o, "InvalidPathError", "mkdir:no_such_directory", None)
                ELSE IF g.exc # "none" THEN Raises(o, g.exc, "get_node", None)
                ELSE IF kind[g.node] # "Node"
                THEN Raises(o, "InvalidPathError", "mkdir:not_a_directory", None)
                ELSE Construct(o, "Node", PName(path), g.node, "mkdir:exists")
           ELSE \E g \in GetNode(IF IsAbs(path) THEN <<"/">> ELSE << >>) :
                IF g.exc # "none" THEN Raises(o, g.exc, "get_node", None)
                ELSE IF kind[g.node] # "Node"
                THEN Raises(o, "InvalidPathError", "mkdir:root_not_a_directory", None)
                ELSE \E m \in MkdirLoop(Clean, g.node, Tail(path)) :
                     /\ m.exc # "capped"
                     /\ Commit(m.heap, cwd, {})
                     /\ IF m.exc = "none" THEN Return(o, None, None)
                        ELSE Fail(o, m.exc, "mkdir:component_not_a_directory", None)
                     /\ UNCHANGED <<pc, rp, scope>>

\* StupidlySimpleShell.touch
Touch(r) ==
    /\ Ready
    /\ LET path == ResolvePath(PathOf(r))
       IN  IF path = Diverges THEN Raises("touch", "Hang", "get_path", None)
           ELSE IF PName(path) = "" THEN Raises("touch", "InvalidPathError", "touch:name", None)
           ELSE \E g \in GetNode(PParent(path)) :
                IF g.exc = "NodeDoesNotExistError"
                THEN Raises("touch", "InvalidPathError", "touch:missing", None)
                ELSE IF g.exc # "none" THEN Raises("touch", g.exc, "get_node", None)
                ELSE IF kind[g.node] # "Node"
                THEN Raises("touch", "InvalidPathError", "touch:not_a_directory", None)
                ELSE Construct("touch", "LeafNode", PName(path), g.node, "touch:exists")

\* Node.remove_child(nm) on node p: the possible results
RemoveChild(p, nm) ==
    UNION { IF c.exc # "none"
            THEN {[exc |-> c.exc, parent |-> Clean.parent, members |-> Clean.members, node |-> None]}
            ELSE {[exc |-> s.exc, parent |-> s.parent, members |-> s.members, node |-> c.node]
                  : s \in SetParent(Clean.name, Clean.parent, Clean.members, c.node, None)}
            : c \in GetChild(p, nm) }

\* the test of rm refusing only a directory that has children
NeedsRecursiveNonEmpty(n, recursive) == kind[n] = "Node" /\ members[n] # {} /\ ~recursive

\* the test of rm that refuses a directory without recursive=True
NeedsRecursive(n, recursive) == kind[n] = "Node" /\ ~recursive

\* StupidlySimpleShell.rm
Rm(r, recursive) ==
    /\ Ready
    /\ LET path == ResolvePath(PathOf(r))
           o == IF recursive THEN "rm_r" ELSE "rm"
       IN  IF path = Diverges THEN Raises(o, "Hang", "get_path", None)
           ELSE \E g \in GetNode(path) :
                IF g.exc = "NodeDoesNotExistError"
                THEN Raises(o, "InvalidPathError", "rm:missing", None)
                ELSE IF g.exc # "none" THEN Raises(o, g.exc, "get_node", None)
                ELSE IF NeedsRecursive(g.node, recursive)
                THEN Raises(o, "InvalidPathError", "rm:use_recursive", g.node)
                ELSE IF parent[g.node] = None
                THEN Raises(o, "InvalidPathError", "rm:root", g.node)
                ELSE \E x \in RemoveChild(parent[g.node], name[g.node]) :
                     /\ Commit([kind |-> Clean.kind, name |-> Clean.name,
                                parent |-> x.parent, members |-> x.members],
                               cwd, Kept(x.node))
                     /\ IF x.exc = "none" THEN Return(o, g.node, x.node)
                        ELSE Fail(o, x.exc, "remove_child", g.node)
                     /\ UNCHANGED <<pc, rp, scope>>

\* the end of Filesystem.move_node: the check of the target and
\* source.set_parent(target), the name of the source being nm[src]
MoveTail(nm, src, tgt) ==
    IF kind[tgt] # "Node"
    THEN /\ Fail("mv", "InvalidPathError", "mv:invalid_target", src)
         /\ Commit([kind |-> Clean.kind, name |-> nm,
                    parent |-> Clean.parent, members |-> Clean.members], cwd, {})
    ELSE \E s \in SetParent(nm, Clean.parent, Clean.members, src, tgt) :
         /\ Commit([kind |-> Clean.kind, name |-> nm,
                    parent |-> s.parent, members |-> s.members], cwd, Kept(src))
         /\ last' = [Outcome("mv", s.exc, IF s.exc = "none" THEN "return" ELSE "set_parent",
                             src, None) EXCEPT !.dir = tgt]
         /\ ops' = ops + 1
         /\ UNCHANGED budget

\* StupidlySimpleShell.mv up to and including "source.name = target_path.name"
\* when the target does not resolve, and the whole call otherwise
Mv(r1, r2) ==
    /\ Ready
    /\ LET sp == ResolvePath(PathOf(r1))
           tp == ResolvePath(PathOf(r2))
       IN  IF sp = Diverges \/ tp = Diverges THEN Raises("mv", "Hang", "get_path", None)
           ELSE IF PName(sp) = "" THEN Raises("mv", "InvalidPathError", "mv:invalid_source", None)
           ELSE IF PName(tp) = "" THEN Raises("mv", "InvalidPathError", "mv:invalid_target_name", None)
           ELSE \E so \in GetNode(sp) :
                IF so.exc = "NodeDoesNotExistError"
                THEN Raises("mv", "InvalidPathError", "mv:source_missing", None)
                ELSE IF so.exc # "none" THEN Raises("mv", so.exc, "get_node", None)
                ELSE \E to \in GetNode(tp) :
                     IF to.exc = "NodeDoesNotExistError"
                     THEN \E po \in GetNode(PParent(tp)) :
                          IF po.exc = "NodeDoesNotExistError"
                          THEN Raises("mv", "InvalidPathError", "mv:target_missing", so.node)
                          ELSE IF po.exc # "none" THEN Raises("mv", po.exc, "get_node", so.node)
                          ELSE /\ Commit([kind |-> Clean.kind,
                                          name |-> [Clean.name EXCEPT ![so.node] = PName(tp)],
                                          parent |-> Clean.parent,
                                          members |-> Clean.members], cwd, {})
                               /\ pc' = [at |-> "renamed", source |-> so.node, target |-> po.node,
                                       was |-> name[so.node]]
                               /\ UNCHANGED <<last, rp, ops, budget, scope>>
                     ELSE IF to.exc # "none" THEN Raises("mv", to.exc, "get_node", so.node)
                     ELSE /\ MoveTail(Clean.name, so.node, to.node)
                          /\ UNCHANGED <<pc, rp, scope>>

\* the rest of a renaming move_node
MvReparent ==
    /\ pc.at = "renamed"
    /\ MoveTail(Clean.name, pc.source, pc.target)
    /\ pc' = Idle
    /\ UNCHANGED <<rp, scope>>

\* StupidlySimpleShell.ls; only InvalidPathError is caught around get_node
Ls(r) ==
    /\ Ready
    /\ LET path == ResolvePath(PathOf(r))
       IN  IF path = Diverges THEN Raises("ls", "Hang", "get_path", None)
           ELSE \E g \in GetNode(path) :
                IF g.exc # "none" THEN Raises("ls", g.exc, "get_node", None)
                ELSE IF kind[g.node] # "Node"
                THEN Raises("ls", "InvalidPathError", "ls:not_a_directory", g.node)
                ELSE Return("ls", g.node, None) /\ UNCHANGED <<kind, name, parent, members, cwd, pc, rp, data, callbacks, meta, scope>>

\* StupidlySimpleShell.tree; nothing is caught around get_node
Tree(r) ==
    /\ Ready
    /\ LET path == ResolvePath(PathOf(r))
       IN  IF path = Diverges THEN Raises("tree", "Hang", "get_path", None)
           ELSE \E g \in GetNode(path) :
                IF g.exc # "none" THEN Raises("tree", g.exc, "get_node", None)
                ELSE IF kind[g.node] # "Node"
                THEN Raises("tree", "InvalidPathError", "tree:not_a_directory", g.node)
                ELSE Return("tree", g.node, None) /\ UNCHANGED <<kind, name, parent, members, cwd, pc, rp, data, callbacks, meta, scope>>

\* StupidlySimpleShell.get_data
GetData(r) ==
    /\ Ready
    /\ LET path == ResolvePath(PathOf(r))
       IN  IF path = Diverges THEN Raises("get_data", "Hang", "get_path", None)
           ELSE \E g \in GetNode(path) :
                IF g.exc = "NodeDoesNotExistError"
                THEN Raises("get_data", "InvalidPathError", "get_data:missing", None)
                ELSE IF g.exc # "none" THEN Raises("get_data", g.exc, "get_node", None)
                ELSE IF kind[g.node] # "LeafNode"
                THEN Raises("get_data", "InvalidPathError", "get_data:not_a_file", g.node)
                ELSE Return("get_data", g.node, None) /\ UNCHANGED <<kind, name, parent, members, cwd, pc, rp, data, callbacks, meta, scope>>

Next ==
    \/ \E r \in ShellInputs : Cd(r)
    \/ \E r \in ShellInputs, parents \in BOOLEAN : Mkdir(r, parents)
    \/ \E r \in ShellInputs : Touch(r)
    \/ \E r \in ShellInputs, recursive \in BOOLEAN : Rm(r, recursive)
    \/ \E r1, r2 \in ShellInputs : Mv(r1, r2)
    \/ MvReparent
    \/ \E r \in ShellInputs : Ls(r)
    \/ \E r \in ShellInputs : Tree(r)
    \/ \E r \in ShellInputs : GetData(r)

\* every run of at most MaxOps shell calls on a fresh shell
Spec == Init /\ [][Next]_vars

NextResolve ==
    /\ ~rp.done
    /\ \/ \E r \in ResolveInputs : ResolvePathCall(r)
       \/ ops < MaxSetup /\ \E r \in ShellInputs, parents \in BOOLEAN : Mkdir(r, parents)
       \/ ops < MaxSetup /\ \E r \in ShellInputs : Touch(r)
       \/ ops < MaxSetup /\ \E r \in ShellInputs : Cd(r)
       \/ ops < MaxSetup /\ \E r \in ShellInputs, recursive \in BOOLEAN : Rm(r, recursive)
       \/ ops < MaxSetup /\ \E r1, r2 \in ShellInputs : Mv(r1, r2)
       \/ MvReparent

\* one resolve_path call at the end of a run of mkdir, touch, cd, rm and mv
SpecResolve == Init /\ [][NextResolve]_vars

\* a call of operation o that changes the tree and the current directory not
\* at all: the exception e raised at s, or the return
Leaves(o, e, s, n) ==
    /\ last' = Outcome(o, e, s, n, None)
    /\ ops' = ops + 1
    /\ UNCHANGED <<kind, name, parent, members, cwd, pc, rp, budget, scope>>

\* LeafNode.execute_callbacks after a write to leaf n by operation o: every
\* registered callback is called once with get_path(), which is computed
\* first
ExecuteCallbacks(o, n) ==
    /\ ops' = ops + 1
    /\ UNCHANGED <<kind, name, parent, members, cwd, pc, rp, budget, scope, callbacks, meta>>
    /\ IF GetPath(n) = Diverges
       THEN last' = Outcome(o, "Hang", "get_path", n, None)
       ELSE last' = [Outcome(o, "none", "return", n, None)
                        EXCEPT !.calls = [c \in Callbacks |-> IF c \in callbacks[n] THEN 1 ELSE 0],
                               !.cbpath = GetPath(n)]

\* the leaf a data or watcher operation works on: only InvalidPathError is
\* caught around get_node, so every exception of get_node leaves the call
LeafOf(r) ==
    LET path == ResolvePath(PathOf(r))
    IN  IF path = Diverges THEN {[exc |-> "Hang", site |-> "get_path", node |-> None]}
        ELSE { IF g.exc # "none" THEN [exc |-> g.exc, site |-> "get_node", node |-> None]
               ELSE IF kind[g.node] # "LeafNode"
               THEN [exc |-> "InvalidPathError", site |-> "not_a_file", node |-> g.node]
               ELSE [exc |-> "none", site |-> "return", node |-> g.node]
               : g \in GetNode(path) }

\* StupidlySimpleShell.set_data with LeafNode.set_data
SetData(r, d) ==
    /\ Ready
    /\ \E x \in LeafOf(r) :
          IF x.exc # "none"
          THEN Leaves("set_data", x.exc, x.site, x.node) /\ UNCHANGED <<data, callbacks, meta>>
          ELSE /\ data' = [data EXCEPT ![x.node] = d]
               /\ ExecuteCallbacks("set_data", x.node)

\* StupidlySimpleShell.clear_data with LeafNode.clear_data
ClearData(r) ==
    /\ Ready
    /\ \E x \in LeafOf(r) :
          IF x.exc # "none"
          THEN Leaves("clear_data", x.exc, x.site, x.node) /\ UNCHANGED <<data, callbacks, meta>>
          ELSE /\ data' = [data EXCEPT ![x.node] = NoData]
               /\ ExecuteCallbacks("clear_data", x.node)

\* StupidlySimpleShell.watch_file with LeafNode.watch
WatchFile(r, c) ==
    /\ Ready
    /\ \E x \in LeafOf(r) :
          /\ Leaves("watch_file", x.exc, x.site, x.node)
          /\ callbacks' = IF x.exc # "none" THEN callbacks
                          ELSE [callbacks EXCEPT ![x.node] = @ \cup {c}]
          /\ UNCHANGED <<data, meta>>

\* LeafNode.unwatch(*cs) on the set cbs: the callbacks are removed one by
\* one, set.remove raising KeyError for one that is not registered; without
\* arguments the set is cleared
RECURSIVE UnwatchLoop(_, _)
UnwatchLoop(cbs, cs) ==
    IF cs = << >> THEN [exc |-> "none", callbacks |-> cbs]
    ELSE IF Head(cs) \notin cbs THEN [exc |-> "KeyError", callbacks |-> cbs]
    ELSE UnwatchLoop(cbs \ {Head(cs)}, Tail(cs))

Unwatch(cbs, cs) ==
    IF cs = << >> THEN [exc |-> "none", callbacks |-> {}] ELSE UnwatchLoop(cbs, cs)

\* StupidlySimpleShell.unwatch_file
UnwatchFile(r, cs) ==
    /\ Ready
    /\ \E x \in LeafOf(r) :
          LET o == IF cs = << >> THEN "unwatch_file_all" ELSE "unwatch_file"
          IN  IF x.exc # "none"
              THEN Leaves(o, x.exc, x.site, x.node) /\ UNCHANGED <<data, callbacks, meta>>
              ELSE LET u == Unwatch(callbacks[x.node], cs)
                   IN  /\ callbacks' = [callbacks EXCEPT ![x.node] = u.callbacks]
                       /\ Leaves(o, u.exc, IF u.exc = "none" THEN "return" ELSE "unwatch", x.node)
                       /\ UNCHANGED <<data, meta>>

\* the node a metadata operation works on, a directory or a leaf
NodeOf(r) ==
    LET path == ResolvePath(PathOf(r))
    IN  IF path = Diverges THEN {[exc |-> "Hang", site |-> "get_path", node |-> None]}
        ELSE { IF g.exc # "none" THEN [exc |-> g.exc, site |-> "get_node", node |-> None]
               ELSE [exc |-> "none", site |-> "return", node |-> g.node]
               : g \in GetNode(path) }

\* StupidlySimpleShell.get_metadata
GetMetadata(r, k) ==
    /\ Ready
    /\ UNCHANGED <<data, callbacks, meta>>
    /\ \E x \in NodeOf(r) :
          IF x.exc # "none" THEN Leaves("get_metadata", x.exc, x.site, x.node)
          ELSE IF meta[x.node][k] = "absent"
          THEN Leaves("get_metadata", "KeyError", "get_metadata", x.node)
          ELSE Leaves("get_metadata", "none", "return", x.node)

\* StupidlySimpleShell.set_metadata
SetMetadata(r, k, v) ==
    /\ Ready
    /\ UNCHANGED <<data, callbacks>>
    /\ \E x \in NodeOf(r) :
          /\ Leaves("set_metadata", x.exc, x.site, x.node)
          /\ meta' = IF x.exc # "none" THEN meta ELSE [meta EXCEPT ![x.node][k] = v]

\* StupidlySimpleShell.del_metadata
DelMetadata(r, k) ==
    /\ Ready
    /\ UNCHANGED <<data, callbacks>>
    /\ \E x \in NodeOf(r) :
          IF x.exc # "none"
          THEN Leaves("del_metadata", x.exc, x.site, x.node) /\ UNCHANGED meta
          ELSE IF meta[x.node][k] = "absent"
          THEN Leaves("del_metadata", "KeyError", "del_metadata", x.node) /\ UNCHANGED meta
          ELSE /\ Leaves("del_metadata", "none", "return", x.node)
               /\ meta' = [meta EXCEPT ![x.node][k] = "absent"]

InitData == Fresh /\ budget = MaxDataOps

NextData ==
    \/ \E r \in DataInputs : Mkdir(r, FALSE)
    \/ \E r \in DataInputs : Touch(r)
    \/ \E r1, r2 \in DataInputs : Mv(r1, r2)
    \/ MvReparent
    \/ \E r \in DataInputs : Rm(r, FALSE)
    \/ \E r \in DataInputs : GetData(r)
    \/ \E r \in DataInputs, d \in Values : SetData(r, d)
    \/ \E r \in DataInputs : ClearData(r)
    \/ \E r \in DataInputs, c \in Callbacks : WatchFile(r, c)
    \/ \E r \in DataInputs, cs \in SeqsUpTo(Callbacks, MaxUnwatch) : UnwatchFile(r, cs)
    \/ \E r \in DataInputs, k \in Keys : GetMetadata(r, k)
    \/ \E r \in DataInputs, k \in Keys, v \in MetaValues : SetMetadata(r, k, v)
    \/ \E r \in DataInputs, k \in Keys : DelMetadata(r, k)

\* every run of at most MaxDataOps calls that build a tree, write data and
\* metadata and register watchers, on absolute paths
SpecData == InitData /\ [][NextData]_vars

\* ChangeDirContextManager.__enter__ for managed_cd(r): the working directory
\* path is recorded, then cd(r) is called; when cd raises the scope is not
\* entered
ManagedCdEnter(r) ==
    /\ Ready
    /\ ~scope.entered
    /\ IF Pwd = Diverges
       THEN Raises("managed_cd", "Hang", "get_path", None)
       ELSE LET path == ResolvePath(PathOf(r))
            IN  \E o \in GetNode(path) :
                IF o.exc = "NodeDoesNotExistError"
                THEN Raises("managed_cd", "InvalidPathError", "cd:missing", None)
                ELSE IF o.exc # "none" THEN Raises("managed_cd", o.exc, "get_node", None)
                ELSE IF kind[o.node] # "Node"
                THEN Raises("managed_cd", "InvalidPathError", "cd:not_a_directory", o.node)
                ELSE /\ Commit(Clean, o.node, {})
                     /\ scope' = [entered |-> TRUE, pwd |-> Pwd, node |-> cwd]
                     /\ Return("managed_cd", o.node, None)
                     /\ UNCHANGED <<pc, rp>>

\* ChangeDirContextManager.__exit__: cd(self._pwd), whose exceptions leave the
\* with statement
ManagedCdExit ==
    /\ Ready
    /\ scope.entered
    /\ scope' = NoScope
    /\ UNCHANGED <<pc, rp>>
    /\ LET path == ResolvePath(scope.pwd)
       IN  IF path = Diverges
           THEN /\ Fail("managed_cd_exit", "Hang", "get_path", None)
                /\ UNCHANGED <<kind, name, parent, members, cwd, data, callbacks, meta>>
           ELSE \E o \in GetNode(path) :
                IF o.exc # "none"
                THEN /\ Fail("managed_cd_exit",
                             IF o.exc = "NodeDoesNotExistError" THEN "InvalidPathError" ELSE o.exc,
                             IF o.exc = "NodeDoesNotExistError" THEN "cd:missing" ELSE "get_node",
                             None)
                     /\ UNCHANGED <<kind, name, parent, members, cwd, data, callbacks, meta>>
                ELSE IF kind[o.node] # "Node"
                THEN /\ Fail("managed_cd_exit", "InvalidPathError", "cd:not_a_directory", o.node)
                     /\ UNCHANGED <<kind, name, parent, members, cwd, data, callbacks, meta>>
                ELSE /\ Commit(Clean, o.node, {})
                     /\ Return("managed_cd_exit", o.node, None)

InitScope == Fresh /\ budget = MaxScopeOps

NextScope ==
    \/ \E r \in ShellInputs : ManagedCdEnter(r)
    \/ ManagedCdExit
    \/ \E r \in ShellInputs : Cd(r)
    \/ \E r \in ShellInputs : Mkdir(r, FALSE)
    \/ \E r \in ShellInputs : Rm(r, TRUE)
    \/ \E r1, r2 \in ShellInputs : Mv(r1, r2)
    \/ MvReparent

\* every run of at most MaxScopeOps calls of cd, mkdir, rm(recursive=True) and
\* mv, inside and outside a managed_cd scope
SpecScope == InitScope /\ [][NextScope]_vars

\* ------------------------------------------------------------- claims
\* the nodes reachable from the root through child sets
RECURSIVE Below(_)
Below(S) ==
    LET T == S \cup UNION {members[n] : n \in S}
    IN  IF T = S THEN S ELSE Below(T)

FromRoot == Below({Root})

\* this step is the end of a call of operation o
Ends(o) == ops' = ops + 1 /\ last'.op = o

\* C1: no directory's child set ever holds two nodes of the same name, the
\* state inside a move between the rename and the re-parenting included.
C1_UniqueNames ==
    \A d \in Ids : \A m1, m2 \in members[d] : name[m1] = name[m2] => m1 = m2

\* C2: a mv that fails on a name collision in the destination directory
\* leaves the source with its name and its parent, and a member of that
\* parent's child set.
C2_MoveAtomic ==
    [][ (Ends("mv") /\ last'.exc = "DuplicateNodeNameError")
        => LET src == last'.node
               was == IF pc.at = "renamed" THEN pc.was ELSE name[src]
           IN  /\ name'[src] = was
               /\ parent'[src] = parent[src]
               /\ parent'[src] # None
               /\ src \in members'[parent'[src]] ]_vars

\* C3: the parent references form no cycle: from every node they lead to a
\* parentless node.
C3_Acyclic ==
    \A n \in Ids : kind[n] # "free" => GetPath(n) # Diverges

\* C4: between calls the current directory is a directory reachable from the
\* root, and get_node(pwd()) is the current directory.
C4_CwdAttached ==
    pc = Idle =>
        /\ kind[cwd] = "Node"
        /\ cwd \in FromRoot
        /\ Pwd # Diverges
        /\ GetNode(Pwd) = {Ok(cwd)}

\* C5: between calls get_node(get_path(N)) is N for every node N reachable
\* from the root.
C5_RoundTrip ==
    pc = Idle =>
        \A n \in FromRoot : GetPath(n) # Diverges /\ GetNode(GetPath(n)) = {Ok(n)}

\* the left-to-right collapse: ".." removes itself and the nearest surviving
\* component before it, and only itself when none is left
RECURSIVE RefCollapse(_, _)
RefCollapse(todo, done) ==
    IF todo = << >> THEN done
    ELSE IF Head(todo) = "."
    THEN RefCollapse(Tail(todo), done)
    ELSE IF Head(todo) = ".."
    THEN RefCollapse(Tail(todo), IF done = << >> THEN done ELSE SubSeq(done, 1, Len(done) - 1))
    ELSE RefCollapse(Tail(todo), Append(done, Head(todo)))

NoDot(toks) == \A i \in 1..Len(toks) : toks[i] # "."

\* C6: for an argument of names and ".." tokens resolve_path returns the
\* root followed by the left-to-right collapse of the components of the
\* argument, after those of the working directory for a relative argument.
C6_ResolveCollapses ==
    (rp.done /\ NoDot(rp.arg.toks)) =>
        /\ rp.output # Diverges
        /\ rp.output = <<"/">> \o RefCollapse(
               IF rp.arg.abs THEN rp.arg.toks ELSE Tail(rp.pwd) \o rp.arg.toks, << >>)

\* the tokens are some ".." followed by names only
DotDotsThenNames(toks) ==
    \E k \in 0..Len(toks) :
        /\ \A i \in 1..k : toks[i] = ".."
        /\ \A i \in (k + 1)..Len(toks) : toks[i] \in Names

LeadingDotDots(toks) == Cardinality({i \in 1..Len(toks) : toks[i] = ".."})

\* C7: a ".." with no component before it removes only itself: an absolute
\* argument of ".." tokens followed by names resolves to the root followed
\* by those names.
C7_NoAscentAboveRoot ==
    (rp.done /\ rp.arg.abs /\ DotDotsThenNames(rp.arg.toks)) =>
        rp.output = <<"/">> \o SubSeq(rp.arg.toks, LeadingDotDots(rp.arg.toks) + 1,
                                     Len(rp.arg.toks))

\* an absolute argument whose components are all names
NormalAbs(r) == r.abs /\ \A i \in 1..Len(r.toks) : r.toks[i] \in Names

\* C8: resolve_path returns an absolute, normalized argument unchanged,
\* whatever the current directory is, and changes neither the tree nor the
\* current directory.
C8_ResolveIdempotent ==
    [][ (Ends("resolve_path") /\ NormalAbs(rp'.arg))
        => /\ last'.exc = "none"
           /\ rp'.output = <<"/">> \o rp'.arg.toks
           /\ UNCHANGED <<kind, name, parent, members, cwd>> ]_vars

C8_Witness ==
    /\ last.op = "resolve_path"
    /\ NormalAbs(rp.arg)
    /\ Len(rp.arg.toks) >= 2
    /\ cwd # Root
    /\ rp.output = <<"/">> \o rp.arg.toks

\* C9: a shell operation that fails raises InvalidPathError (InvalidPath,
\* TypeMismatch) or KeyError (MissingKey); DuplicateNodeNameError and
\* NodeDoesNotExistError never reach the caller.
C9_ShellErrorsOnly ==
    last.exc \in {"none", "Hang", "InvalidPathError", "KeyError"}

\* C10: rm without recursive=True on a path that resolves to a directory
\* raises InvalidPathError and changes neither the tree nor the current
\* directory.
C10_RmDirNeedsRecursive ==
    [][ (Ends("rm") /\ last'.node # None /\ kind[last'.node] = "Node")
        => /\ last'.exc = "InvalidPathError"
           /\ UNCHANGED <<kind, name, parent, members, cwd>> ]_vars

C10_Witness ==
    /\ last.op = "rm"
    /\ last.site = "rm:use_recursive"
    /\ last.node \in FromRoot
    /\ members[last.node] = {}

\* what the shell can still reach: the objects connected to the root or to
\* the current directory, with their data, watchers and metadata, and the
\* current directory
View ==
    [heap |-> Clean, cwd |-> cwd,
     data |-> [n \in Ids |-> IF n \in Live THEN data[n] ELSE NoData],
     callbacks |-> [n \in Ids |-> IF n \in Live THEN callbacks[n] ELSE {}],
     meta |-> [n \in Ids |-> IF n \in Live THEN meta[n] ELSE NoMeta]]

\* the nodes reachable from the nodes of S through the child sets mem
RECURSIVE BelowIn(_, _)
BelowIn(mem, S) ==
    LET T == S \cup UNION {mem[n] : n \in S}
    IN  IF T = S THEN S ELSE BelowIn(mem, T)

\* C11: rm with recursive=True on a path that resolves to a directory other
\* than the root succeeds and returns that node without a parent; afterwards
\* neither the node nor any of its descendants is reachable from the root,
\* and every other node keeps its kind, name, parent, children and data.
C11_RmRecursive ==
    [][ (Ends("rm_r") /\ last'.node # None /\ last'.node # Root
                      /\ kind[last'.node] = "Node")
        => LET n == last'.node
               sub == BelowIn(members, {n})
           IN  /\ last'.exc = "none"
               /\ last'.ret = n
               /\ parent'[n] = None
               /\ BelowIn(members', {Root}) \cap sub = {}
               /\ \A m \in FromRoot \ sub :
                      /\ kind'[m] = kind[m]
                      /\ name'[m] = name[m]
                      /\ parent'[m] = parent[m]
                      /\ members'[m] = members[m] \ {n}
                      /\ data'[m] = data[m] ]_vars

\* the root is a parentless directory named "/" and a child of no node
RootIntact ==
    /\ kind[Root] = "Node"
    /\ name[Root] = "/"
    /\ parent[Root] = None
    /\ \A d \in Ids : Root \notin members[d]

\* C12: the root stays the parentless directory "/": rm of a path that
\* resolves to the root raises InvalidPathError whatever recursive is, mv of
\* a source path that resolves to the root raises InvalidPathError, neither
\* changes anything, and no step changes the root.
C12_RootStable ==
    [][ /\ RootIntact'
        /\ ((Ends("rm") \/ Ends("rm_r")) /\ last'.node = Root)
              => /\ last'.exc = "InvalidPathError"
                 /\ UNCHANGED <<kind, name, parent, members, cwd, data>>
        /\ \A r1 \in ShellInputs :
              (pc = Idle /\ ResolvePath(PathOf(r1)) = <<"/">>)
              => \A r2 \in ShellInputs :
                    Mv(r1, r2) => /\ last'.exc = "InvalidPathError"
                                  /\ UNCHANGED <<kind, name, parent, members, cwd, data>>
      ]_vars

\* C13: when the scope of managed_cd ends, the current directory is again
\* the directory that was current when the scope was entered, whatever
\* happened inside the scope.
C13_ManagedCdRestores ==
    [][ Ends("managed_cd_exit") => cwd' = scope.node ]_vars

\* C14: a successful mv leaves the source node a child of the directory it
\* was moved into and of no other node, with that directory as its parent;
\* the nodes below it keep their names, parents, children and data, and no
\* other node changes except that the old parent loses the node and the new
\* one gains it.
C14_MovePlacesOnce ==
    [][ (Ends("mv") /\ last'.exc = "none")
        => LET src == last'.node
               tgt == last'.dir
               sub == BelowIn(members, {src})
           IN  /\ name'[src] = name[src]
               /\ parent'[src] = tgt
               /\ \A d \in Ids : src \in members'[d] <=> d = tgt
               /\ \A m \in (FromRoot \cup sub) \ {src} :
                      /\ kind'[m] = kind[m]
                      /\ name'[m] = name[m]
                      /\ parent'[m] = parent[m]
                      /\ data'[m] = data[m]
                      /\ members'[m] = IF m = tgt THEN members[m] \cup {src}
                                       ELSE members[m] \ {src}
               /\ tgt # src => members'[src] = members[src] ]_vars

\* the prefixes of a path that hold at least one name
Prefixes(path) ==
    {SubSeq(path, 1, k) : k \in (IF IsAbs(path) THEN 2 ELSE 1)..Len(path)}

\* a prefix of the path resolves to a leaf
LeafAlong(path) ==
    \E q \in Prefixes(path) :
        \E o \in GetNode(q) : o.exc = "none" /\ kind[o.node] = "LeafNode"

\* every prefix of the path resolves to a directory
AllDirs(path) ==
    \A q \in Prefixes(path) :
        \A o \in GetNode(q) : o.exc = "none" /\ kind[o.node] = "Node"

Missing(path) == {q \in Prefixes(path) : \E o \in GetNode(q) : o.exc # "none"}

\* C15: mkdir(path, parents=True) for a path other than the root: when no
\* prefix of the resolved path is a leaf the call succeeds, afterwards every
\* prefix resolves to a directory, the nodes that existed are unchanged and
\* one directory was created for each missing prefix; when a prefix is a
\* leaf the call raises InvalidPathError and changes nothing.
C15_MkdirParents ==
    [][ Ends("mkdir_p") =>
        \A r \in ShellInputs :
            (Mkdir(r, TRUE) /\ (ResolvePath(PathOf(r)) = Diverges
                                \/ PName(ResolvePath(PathOf(r))) # ""))
            => LET path == ResolvePath(PathOf(r))
                   made == {n \in Ids : n \notin FromRoot /\ n \in FromRoot'}
               IN  /\ path # Diverges
                   /\ IF LeafAlong(path)
                      THEN /\ last'.exc = "InvalidPathError"
                           /\ View' = View
                      ELSE /\ last'.exc = "none"
                           /\ AllDirs(path)'
                           /\ \A m \in FromRoot :
                                  /\ kind'[m] = kind[m]
                                  /\ name'[m] = name[m]
                                  /\ parent'[m] = parent[m]
                                  /\ data'[m] = data[m]
                                  /\ members[m] \subseteq members'[m]
                                  /\ members'[m] \ members[m] \subseteq made
                           /\ \A n \in made : kind'[n] = "Node"
                           /\ Cardinality(made) = Cardinality(Missing(path)) ]_vars

\* C16: a successful set_data or clear_data on a leaf calls every callback
\* registered on the leaf once, and no other, with the absolute path that
\* resolves to the leaf; a successful unwatch_file without callbacks leaves
\* no callback registered on the leaf.
C16_WatchersNotified ==
    [][ /\ ((Ends("set_data") \/ Ends("clear_data")) /\ last'.exc = "none")
            => LET n == last'.node
               IN  /\ \A c \in Callbacks :
                          last'.calls[c] = IF c \in callbacks[n] THEN 1 ELSE 0
                   /\ callbacks[n] # {} =>
                          /\ IsAbs(last'.cbpath)
                          /\ GetNode(last'.cbpath) = {Ok(n)}
        /\ (Ends("unwatch_file_all") /\ last'.exc = "none")
            => callbacks'[last'.node] = {} ]_vars

\* the directories the path can resolve to
DirsAt(path) ==
    IF path = Diverges THEN {}
    ELSE {o.node : o \in {g \in GetNode(path) : g.exc = "none" /\ kind[g.node] = "Node"}}

\* C17: cd succeeds exactly when the resolved path names a directory, which
\* is then the current directory; otherwise it raises InvalidPathError and
\* the current directory is unchanged.
C17_CdExact ==
    [][ Ends("cd") =>
        \A r \in ShellInputs :
            Cd(r) => LET dirs == DirsAt(ResolvePath(PathOf(r)))
                     IN  IF dirs # {}
                         THEN last'.exc = "none" /\ cwd' \in dirs
                         ELSE last'.exc = "InvalidPathError" /\ cwd' = cwd ]_vars

\* the operations other than mv
NotMv ==
    {"cd", "mkdir", "mkdir_p", "touch", "rm", "rm_r", "ls", "tree", "get_data",
     "set_data", "clear_data", "watch_file", "unwatch_file", "unwatch_file_all",
     "get_metadata", "set_metadata", "del_metadata"}

\* C18: a call of an operation other than mv that raises an exception leaves
\* the tree, the data, the watchers and the metadata of every node and the
\* current directory as they were.
C18_FailureChangesNothing ==
    [][ (ops' = ops + 1 /\ last'.op \in NotMv /\ last'.exc \notin {"none", "Hang"})
        => View' = View ]_vars

\* the leaves the path can resolve to
LeavesAt(path) ==
    IF path = Diverges THEN {}
    ELSE {o.node : o \in {g \in GetNode(path) : g.exc = "none" /\ kind[g.node] = "LeafNode"}}

\* the destination directory of mv(source, target) can be a leaf: the target
\* resolves to a leaf, or it does not resolve and its parent path resolves
\* to a leaf
MvIntoLeaf(tp) ==
    /\ tp # Diverges
    /\ \/ LeavesAt(tp) # {}
       \/ /\ \A g \in GetNode(tp) : g.exc # "none"
          /\ LeavesAt(PParent(tp)) # {}

\* C19: no node has a leaf as its parent or belongs to the child set of a
\* leaf, and mkdir, touch and mv into a directory that is a leaf raise
\* InvalidPathError and leave the tree as it was.
C19_LeafHasNoChildren ==
    [][ /\ \A n \in Ids : /\ (parent'[n] # None => kind'[parent'[n]] # "LeafNode")
                           /\ (kind'[n] = "LeafNode" => members'[n] = {})
        /\ (pc'.at = "renamed" => kind'[pc'.target] = "Node")
        /\ (Ends("mkdir") \/ Ends("mkdir_p") \/ Ends("touch")) =>
              \A r \in ShellInputs :
                  LET path == ResolvePath(PathOf(r))
                  IN  ((Mkdir(r, FALSE) \/ Mkdir(r, TRUE) \/ Touch(r))
                       /\ path # Diverges /\ LeavesAt(PParent(path)) # {})
                      => last'.exc = "InvalidPathError" /\ View' = View
        /\ (Ends("mv") /\ pc = Idle) =>
              \A r2 \in ShellInputs :
                  MvIntoLeaf(ResolvePath(PathOf(r2)))
                  => \A r1 \in ShellInputs :
                        Mv(r1, r2) => last'.exc = "InvalidPathError" /\ View' = View
      ]_vars

\* C20: a node is a member of a directory's child set exactly when its
\* parent reference is that directory.
C20_LinksConsistent ==
    \A n, d \in Ids :
        (kind[n] # "free" /\ kind[d] # "free") => (n \in members[d] <=> parent[n] = d)

\* C21: when set_parent of a node that has a parent raises
\* DuplicateNodeNameError (mv is the call that reaches it), the node is left
\* detached: it is in no child set and its parent reference is None.
C21_FailedSetParentDetaches ==
    [][ (Ends("mv") /\ last'.exc = "DuplicateNodeNameError" /\ last'.site = "set_parent"
         /\ parent[last'.node] # None)
        => LET src == last'.node
           IN  /\ parent'[src] = None
               /\ \A d \in Ids : src \notin members'[d] ]_vars

\* the argument "/"
RootArg == [abs |-> TRUE, toks |-> << >>]

\* the call left the tree, the data and the current directory as they were
Untouched ==
    \/ UNCHANGED <<kind, name, parent, members, cwd, data, callbacks, meta>>
    \/ View' = View

\* C22: mv with "/" as source or as target raises InvalidPathError, whatever
\* the other path is, and leaves the tree and the current directory as they
\* were: a call of mv that ends otherwise is no call with "/" on either side.
C22_MvRejectsNameless ==
    [][ (Ends("mv") /\ pc = Idle)
        => \/ last'.exc = "InvalidPathError" /\ pc' = Idle /\ Untouched
           \/ \A x \in ShellInputs : ~Mv(RootArg, x) /\ ~Mv(x, RootArg) ]_vars

\* n and the nodes its parent references lead to
RECURSIVE Chain(_, _)
Chain(n, seen) ==
    IF parent[n] = None \/ parent[n] \in seen THEN seen
    ELSE Chain(parent[n], seen \cup {parent[n]})

\* C23: a successful mv of the current directory or of one of its ancestors
\* into a directory outside the moved subtree keeps the current directory the
\* same node, reachable from the root, and pwd() is then the absolute path of
\* the destination directory, the node's name after the move and the old
\* path from the moved node to the current directory, which resolves to the
\* current directory.
C23_CwdFollowsMove ==
    [][ (Ends("mv") /\ last'.exc = "none"
         /\ last'.node \in Chain(cwd, {cwd})
         /\ last'.dir \notin Below({last'.node}))
        => LET src == last'.node
               dir == last'.dir
           IN  /\ cwd' = cwd
               /\ cwd' \in FromRoot'
               /\ Pwd' # Diverges
               /\ IsAbs(Pwd')
               /\ (GetNode(Pwd) = {Ok(cwd)})'
               /\ (Pwd # Diverges /\ GetPath(dir) # Diverges)
                      => Pwd' = GetPath(dir) \o <<name'[src]>>
                                \o SubSeq(Pwd, Len(GetPath(src)) + 1, Len(Pwd)) ]_vars

====
